---- MODULE Spec2Model ----
(***************************************************************************)
(* Model of the validation-and-repair loop (terraform_validator.py), its   *)
(* caller (terraform_prototype.py main) and the multi-candidate            *)
(* orchestration (multi_agent_generator.py) of cloud-function-saas.        *)
(*                                                                         *)
(* A file content is a record: `origin' says whether the text came with    *)
(* the input artifact set ("user") or from a deterministic generator       *)
(* ("gen"); `marks' is the set of substrings the validator searches for    *)
(* that occur in the text; the remaining fields are the values the         *)
(* generated text is built from.                                           *)
(*                                                                         *)
(* Not modelled: _copy_terraform_modules (it copies directories on the     *)
(* success path and never touches the artifact set), logging, and          *)
(* environments whose CLAUDE_MAX_TOKENS or CLAUDE_TEMPERATURE do not parse *)
(* as numbers.                                                             *)
(***************************************************************************)
EXTENDS Integers, Sequences, FiniteSets, TLC

\* ------------------------------------------------------------------ bounds
MaxRetriesBound == 3

\* --------------------------------------------------------------- constants
MainMaxRetries == 3

\* valid_providers of parse_providers
ValidProviders == {"gcp", "aws", "azure"}

\* every value parse_providers can return: ['gcp'] by default, ['gcp','aws']
\* for "both", otherwise the de-duplicated list of valid names
parse_providers == (SUBSET ValidProviders) \ {{}}

\* target-kind lists validate_and_fix can be called with
ProviderLists == SUBSET ValidProviders

RuntimeValues == {"", "Node.js 20", "Python 3.11", "Go 1.21"}
SpecNames == {"", "Demo"}
ServiceSpec == [name : SpecNames, runtime : RuntimeValues]

\* (spec.runtime or 'Node.js').lower() contains 'node' or 'javascript'
IsNodeRuntime(runtime) == runtime \in {"", "Node.js 20"}
\* ... contains 'python'
IsPythonRuntime(runtime) == runtime \in {"Python 3.11"}

\* process environment read by os.getenv: GOOGLE_CLOUD_PROJECT and
\* GOOGLE_CLOUD_REGION (with their defaults), and whether CLAUDE_MODEL is set
DefaultProject == "your-gcp-project-id"
DefaultRegion == "us-central1"
Environments ==
  { [project |-> DefaultProject, region |-> DefaultRegion, claude_model |-> FALSE],
    [project |-> "acme-prod", region |-> "europe-west1", claude_model |-> TRUE] }

\* ------------------------------------------------------------ file contents
tfvars_file(provider) == "terraform-" \o provider \o ".tfvars"

required_files == {"main.tf", "variables.tf", "outputs.tf"}
nodejs_group == {"package.json", "index.js"}
python_group == {"requirements.txt", "main.py"}
go_group == {"go.mod", "main.go"}

Text(origin, file, marks, provs, name, variant, project, region) ==
  [origin |-> origin, file |-> file, marks |-> marks, provs |-> provs,
   name |-> name, variant |-> variant, project |-> project, region |-> region]

UserText(file, marks) == Text("user", file, marks, {}, "", "", "", "")

\* 'needle in content'
Contains(content, needle) == needle \in content.marks

\* (spec.name or 'cloud-microservice').lower().replace(' ', '-').replace('_', '-')
service_name(spec) ==
  IF spec.name = "" THEN "cloud-microservice" ELSE "demo"

_generate_main_tf(spec, providers) ==
  Text("gen", "main.tf",
       {"terraform {"}
         \cup (IF "gcp" \in providers THEN {"hashicorp/google", "module"} ELSE {})
         \cup (IF "aws" \in providers THEN {"hashicorp/aws", "module"} ELSE {}),
       providers \cap {"gcp", "aws"}, "", "", "", "")

_generate_variables_tf(spec, providers) ==
  Text("gen", "variables.tf",
       {"variable \"service_name\""}
         \cup (IF "gcp" \in providers
                 THEN {"variable \"project_id\"", "variable \"region\""} ELSE {})
         \cup (IF "aws" \in providers THEN {"variable \"aws_region\""} ELSE {}),
       providers \cap {"gcp", "aws"}, "", "", "", "")

\* mutant: the primary service_url output is written in the multi-cloud
\* branch only
_generate_outputs_tf_NoPrimaryUrl(spec, providers) ==
  Text("gen", "outputs.tf",
       {"output"}
         \cup (IF "gcp" \in providers THEN {"service_url"} ELSE {})
         \cup (IF "aws" \in providers THEN {"service_url"} ELSE {})
         \cup (IF Cardinality(providers) = 1
                 THEN {}
                 ELSE {"output \"service_urls\"", "output \"service_url\"", "service_url"}),
       providers, "", "", "", "")

\* every block of outputs.tf holds the word "output"; the gcp and aws blocks
\* name <provider>_service_url; an output "service_url" is declared for one
\* provider when it is gcp or aws, and always when len(providers) != 1
_generate_outputs_tf(spec, providers) ==
  Text("gen", "outputs.tf",
       {"output"}
         \cup (IF "gcp" \in providers THEN {"service_url"} ELSE {})
         \cup (IF "aws" \in providers THEN {"service_url"} ELSE {})
         \cup (IF Cardinality(providers) = 1
                 THEN (IF "gcp" \in providers \/ "aws" \in providers
                         THEN {"output \"service_url\"", "service_url"} ELSE {})
                 ELSE {"output \"service_urls\"", "output \"service_url\"", "service_url"}),
       providers, "", "", "", "")

_generate_provider_tfvars(spec, provider, env) ==
  IF provider = "gcp"
    THEN Text("gen", tfvars_file(provider), {}, {provider}, service_name(spec), "",
              env.project, env.region)
    ELSE Text("gen", tfvars_file(provider), {}, {provider}, service_name(spec), "",
              "", "")

_generate_dockerfile(spec) ==
  Text("gen", "Dockerfile", {}, {}, "",
       IF IsNodeRuntime(spec.runtime) THEN "node"
       ELSE IF IsPythonRuntime(spec.runtime) THEN "python" ELSE "default-node",
       "", "")

_generate_package_json(spec) == Text("gen", "package.json", {}, {}, spec.name, "", "", "")
_generate_nodejs_app(spec) == Text("gen", "index.js", {}, {}, spec.name, "", "", "")
_generate_requirements_txt(spec) == Text("gen", "requirements.txt", {}, {}, "", "", "", "")
_generate_python_app(spec) == Text("gen", "main.py", {}, {}, spec.name, "", "", "")

\* ---------------------------------------------------------------- validator
_validate_main_tf(content, providers) ==
  (IF ~Contains(content, "terraform {")
     THEN {"main.tf: Missing terraform configuration block"} ELSE {})
  \cup (IF "gcp" \in providers /\ ~Contains(content, "hashicorp/google")
     THEN {"main.tf: Missing Google Cloud provider configuration"} ELSE {})
  \cup (IF "aws" \in providers /\ ~Contains(content, "hashicorp/aws")
     THEN {"main.tf: Missing AWS provider configuration"} ELSE {})
  \cup (IF "gcp" \in providers /\ ~Contains(content, "module")
     THEN {"main.tf: Missing module blocks for GCP resources"} ELSE {})
  \cup (IF "aws" \in providers /\ ~Contains(content, "module")
     THEN {"main.tf: Missing module blocks for AWS resources"} ELSE {})

_validate_variables_tf(content, providers) ==
  (IF ~Contains(content, "variable \"service_name\"")
     THEN {"variables.tf: Missing required variable 'service_name'"} ELSE {})
  \cup (IF "gcp" \in providers /\ ~Contains(content, "variable \"project_id\"")
     THEN {"variables.tf: Missing required variable 'project_id'"} ELSE {})
  \cup (IF "gcp" \in providers /\ ~Contains(content, "variable \"region\"")
     THEN {"variables.tf: Missing required variable 'region'"} ELSE {})
  \cup (IF "aws" \in providers /\ ~Contains(content, "variable \"aws_region\"")
     THEN {"variables.tf: Missing required variable 'aws_region'"} ELSE {})

_validate_outputs_tf(content, providers) ==
  (IF ~Contains(content, "output")
     THEN {"outputs.tf: No output definitions found"} ELSE {})
  \cup (IF ~Contains(content, "service_url")
     THEN {"outputs.tf: Missing service_url output"} ELSE {})

RuntimeIssue == "No runtime-specific application files found"

\* mutant: content issues do not count
is_valid_MissingFilesOnly(missing_files, content_issues) == missing_files = {}

\* is_valid = len(missing_files) == 0 and len(content_issues) == 0
is_valid(missing_files, content_issues) ==
  missing_files = {} /\ content_issues = {}

validate_terraform_files(files, providers) ==
  LET present == DOMAIN files
      missing_files ==
        (required_files \ present)
        \cup {tfvars_file(p) : p \in {q \in providers : tfvars_file(q) \notin present}}
        \cup (IF "Dockerfile" \in present THEN {} ELSE {"Dockerfile"})
      nodejs_files == \E f \in nodejs_group : f \in present
      python_files == \E f \in python_group : f \in present
      go_files == \E f \in go_group : f \in present
      content_issues ==
        (IF "main.tf" \in present
           THEN _validate_main_tf(files["main.tf"], providers) ELSE {})
        \cup (IF "variables.tf" \in present
           THEN _validate_variables_tf(files["variables.tf"], providers) ELSE {})
        \cup (IF "outputs.tf" \in present
           THEN _validate_outputs_tf(files["outputs.tf"], providers) ELSE {})
        \cup (IF ~(nodejs_files \/ python_files \/ go_files)
           THEN {RuntimeIssue} ELSE {})
  IN [valid |-> is_valid(missing_files, content_issues),
      missing_files |-> missing_files,
      content_issues |-> content_issues]

\* dict.update
Update(files, more) ==
  [f \in (DOMAIN files) \cup (DOMAIN more) |->
     IF f \in DOMAIN more THEN more[f] ELSE files[f]]

\* mutant: a pass that generates required files generates nothing else
GeneratedNames_RequiredFirst(existing_files, missing_files, spec, providers) ==
  IF missing_files \cap required_files # {}
    THEN missing_files \cap required_files
    ELSE {tfvars_file(p) : p \in {q \in providers : tfvars_file(q) \in missing_files}}
         \cup (missing_files \cap {"Dockerfile"})
         \cup (IF IsNodeRuntime(spec.runtime) THEN nodejs_group \ DOMAIN existing_files
               ELSE IF IsPythonRuntime(spec.runtime) THEN python_group \ DOMAIN existing_files
               ELSE {})

\* names of the files _generate_missing_files returns
GeneratedNames(existing_files, missing_files, spec, providers) ==
  (missing_files \cap required_files)
  \cup {tfvars_file(p) : p \in {q \in providers : tfvars_file(q) \in missing_files}}
  \cup (missing_files \cap {"Dockerfile"})
  \cup (IF IsNodeRuntime(spec.runtime) THEN nodejs_group \ DOMAIN existing_files
        ELSE IF IsPythonRuntime(spec.runtime) THEN python_group \ DOMAIN existing_files
        ELSE {})

\* the generator keyed by filename (all but the tfvars generator)
Synthesize(f, spec, providers) ==
  CASE f = "main.tf" -> _generate_main_tf(spec, providers)
    [] f = "variables.tf" -> _generate_variables_tf(spec, providers)
    [] f = "outputs.tf" -> _generate_outputs_tf(spec, providers)
    [] f = "Dockerfile" -> _generate_dockerfile(spec)
    [] f = "package.json" -> _generate_package_json(spec)
    [] f = "index.js" -> _generate_nodejs_app(spec)
    [] f = "requirements.txt" -> _generate_requirements_txt(spec)
    [] f = "main.py" -> _generate_python_app(spec)

ProviderOf(f) == CHOOSE p \in ValidProviders : tfvars_file(p) = f

_generate_missing_files(existing_files, missing_files, spec, providers, env) ==
  [f \in GeneratedNames(existing_files, missing_files, spec, providers) |->
     IF f \in {tfvars_file(p) : p \in ValidProviders}
       THEN _generate_provider_tfvars(spec, ProviderOf(f), env)
       ELSE Synthesize(f, spec, providers)]

\* 'main.tf' in issue, 'variables.tf' in issue, 'outputs.tf' in issue
IssueNames(issue, file) ==
  \/ file = "main.tf" /\ issue \in
       {"main.tf: Missing terraform configuration block",
        "main.tf: Missing Google Cloud provider configuration",
        "main.tf: Missing AWS provider configuration",
        "main.tf: Missing module blocks for GCP resources",
        "main.tf: Missing module blocks for AWS resources"}
  \/ file = "variables.tf" /\ issue \in
       {"variables.tf: Missing required variable 'service_name'",
        "variables.tf: Missing required variable 'project_id'",
        "variables.tf: Missing required variable 'region'",
        "variables.tf: Missing required variable 'aws_region'"}
  \/ file = "outputs.tf" /\ issue \in
       {"outputs.tf: No output definitions found",
        "outputs.tf: Missing service_url output"}

\* mutant: every required file present is regenerated when anything is wrong
Regenerated_AllPresent(files, issues) ==
  {f \in required_files \cap DOMAIN files : issues # {}}

\* the files _fix_content_issues regenerates
Regenerated(files, issues) ==
  {f \in required_files \cap DOMAIN files : \E issue \in issues : IssueNames(issue, f)}

_fix_content_issues(files, issues, spec, providers) ==
  [f \in DOMAIN files |->
     IF f \in Regenerated(files, issues)
       THEN Synthesize(f, spec, providers)
       ELSE files[f]]

\* one pass of the body of the for loop, up to the re-validation
RepairStep(files, results, spec, providers, env) ==
  _fix_content_issues(
    Update(files, _generate_missing_files(files, results.missing_files, spec, providers, env)),
    results.content_issues, spec, providers)

\* does this pass construct TerraformCodeGenerator()
ConstructsGenerator(results, providers) ==
  \E p \in providers : tfvars_file(p) \in results.missing_files

\* validate_and_fix as a function of its arguments and the environment: the
\* artifact set it returns after at most n further iterations
RECURSIVE RepairLoop(_, _, _, _, _, _)
RepairLoop(files, results, n, s, provs, env) ==
  IF n = 0 \/ results.valid THEN files
  ELSE LET next == RepairStep(files, results, s, provs, env)
       IN RepairLoop(next, validate_terraform_files(next, provs), n - 1, s, provs, env)

ReturnedFiles(files, s, provs, retries, env) ==
  RepairLoop(files, validate_terraform_files(files, provs), retries, s, provs, env)

\* ------------------------------------------------------- input artifact sets
NoFile == [f \in {} |-> UserText(f, {})]
OneFile(file, marks) == [f \in {file} |-> UserText(file, marks)]
UserFiles(names) == [f \in names |-> UserText(f, {})]

AllMainMarks == {"terraform {", "hashicorp/google", "hashicorp/aws", "module"}
AllVariableMarks ==
  {"variable \"service_name\"", "variable \"project_id\"",
   "variable \"region\"", "variable \"aws_region\""}

MainTfInputs == {NoFile, OneFile("main.tf", {}), OneFile("main.tf", AllMainMarks)}
VariablesTfInputs ==
  {NoFile, OneFile("variables.tf", {"variable \"service_name\""}),
   OneFile("variables.tf", AllVariableMarks)}
OutputsTfInputs ==
  {NoFile, OneFile("outputs.tf", {}), OneFile("outputs.tf", {"output"}),
   OneFile("outputs.tf", {"output", "service_url"})}
TfvarsInputs == {NoFile, UserFiles({tfvars_file(p) : p \in ValidProviders})}
DockerfileInputs == {NoFile, UserFiles({"Dockerfile"})}
AppInputs ==
  {NoFile, UserFiles({"package.json"}), UserFiles(nodejs_group),
   UserFiles(python_group), UserFiles(go_group)}
OtherInputs == {NoFile, UserFiles({"README-DEPLOYMENT.md"})}

ArtifactSets ==
  { Update(Update(Update(Update(Update(Update(m, v), o), t), d), a), r) :
      m \in MainTfInputs, v \in VariablesTfInputs, o \in OutputsTfInputs,
      t \in TfvarsInputs, d \in DockerfileInputs, a \in AppInputs, r \in OtherInputs }

\* ------------------------------------------------------------------- state
VARIABLES
  pc,                 \* "idle", "repairing", "returned", "written"
  caller,             \* "main" (terraform_prototype.main) or "direct"
  generated_files,    \* the artifact set passed in
  spec, providers, max_retries,
  validation_results, \* report of the last validation pass
  fixed_files,        \* the working copy; the returned artifact set
  attempt,            \* repair iterations performed
  validations,        \* validation passes performed
  synthesized,        \* names of the files synthesized so far
  success,            \* first component of the returned pair
  client_constructed, \* an anthropic client was constructed during the call
  client_called,      \* messages.create was called during the call
  env_read,           \* the environment the tfvars generator read, if any
  written             \* the artifact set main wrote to the output directory

vfvars == <<pc, caller, generated_files, spec, providers, max_retries,
            validation_results, fixed_files, attempt, validations, synthesized,
            success, client_constructed, client_called, env_read, written>>

\* state of one run of MultiAgentCodeGenerator.generate_cloud_function
VARIABLES
  mpc,               \* "idle", "generating", "validating", "refining",
                     \* "fallback", "done", "returned"
  quality_threshold, \* in tenths: 8 is 0.8
  max_iterations,
  spec_models,       \* shape of spec.models: "empty", "mapping" or "records"
  gen_result,        \* per generation call: "pending", "ok" or "failed"
  attempts,          \* the list of GenerationAttempt
  validation_tasks,  \* per scoring call: the code_files it was issued for
  score_result,      \* per scoring call: pending, raised or a ValidationResult
  current_attempt,   \* best_attempt / current_attempt
  selected,          \* the attempt _select_best_attempt returned
  iteration,         \* iterations of the refinement loop begun
  gen_calls, score_calls, refine_calls, fallback_calls,
  escaped,           \* an exception reached the except clause, line 670
  fallback_failed,   \* the fallback generation call raised
  result,            \* the pair generate_with_validation returned
  returned_files     \* what generate_cloud_function returned

mavars == <<mpc, quality_threshold, max_iterations, spec_models, gen_result,
            attempts, validation_tasks, score_result, current_attempt, selected, iteration,
            gen_calls, score_calls, refine_calls, fallback_calls, escaped,
            fallback_failed, result, returned_files>>

\* one application of a parsing or single-call generation function
VARIABLES
  applied,           \* the function applied and its argument
  yielded            \* what the application returned or raised

fnvars == <<applied, yielded>>

vars == <<vfvars, mavars, fnvars>>

NoReport == [valid |-> FALSE, missing_files |-> {}, content_issues |-> {}]
NoEnv == [project |-> "", region |-> "", claude_model |-> FALSE]

VFInit ==
  /\ pc = "idle"
  /\ caller = "direct"
  /\ generated_files = NoFile
  /\ spec = [name |-> "Demo", runtime |-> "Node.js 20"]
  /\ providers = {}
  /\ max_retries = 0
  /\ validation_results = NoReport
  /\ fixed_files = NoFile
  /\ attempt = 0
  /\ validations = 0
  /\ synthesized = {}
  /\ success = FALSE
  /\ client_constructed = FALSE
  /\ client_called = FALSE
  /\ env_read = NoEnv
  /\ written = NoFile

\* mutant: no early return
EarlyReturn_Never(results) == FALSE

\* if validation_results['valid'], line 31
EarlyReturn(results) == results.valid

\* mutant: range(max_retries + 1)
LoopContinues_OneMore(done, retries) == done <= retries

\* for attempt in range(max_retries), line 44
LoopContinues(done, retries) == done < retries

\* validate_and_fix, lines 22-42: the first validation pass and the early return
Call(files, s, provs, retries, who) ==
  /\ caller' = who
  /\ generated_files' = files
  /\ spec' = s
  /\ providers' = provs
  /\ max_retries' = retries
  /\ validation_results' = validate_terraform_files(files, provs)
  /\ validations' = 1
  /\ fixed_files' = files
  /\ attempt' = 0
  /\ IF EarlyReturn(validation_results')
       THEN pc' = "returned" /\ success' = TRUE
       ELSE pc' = "repairing" /\ success' = FALSE
  /\ UNCHANGED <<synthesized, client_constructed, client_called, env_read, written>>
  /\ UNCHANGED mavars
  /\ UNCHANGED fnvars

\* a call by any caller
DirectCall ==
  /\ pc = "idle"
  /\ \E files \in ArtifactSets, s \in ServiceSpec, provs \in ProviderLists,
        retries \in 0..MaxRetriesBound :
       Call(files, s, provs, retries, "direct")

\* the call of terraform_prototype.main, lines 346-357
MainCall ==
  /\ pc = "idle"
  /\ \E files \in ArtifactSets, s \in ServiceSpec, provs \in parse_providers :
       /\ "README-DEPLOYMENT.md" \in DOMAIN files
       /\ Call(files, s, provs, MainMaxRetries, "main")

\* validate_and_fix, lines 44-65: one iteration of the repair loop
RepairIteration ==
  /\ pc = "repairing"
  /\ LoopContinues(attempt, max_retries)
  /\ \E env \in Environments :
       /\ fixed_files' = RepairStep(fixed_files, validation_results, spec, providers, env)
       /\ IF ConstructsGenerator(validation_results, providers)
            THEN /\ client_constructed' = TRUE
                 /\ client_called' = (client_called \/ ~env.claude_model)
                 /\ env_read' = env
            ELSE /\ env = CHOOSE e \in Environments : TRUE
                 /\ UNCHANGED <<client_constructed, client_called, env_read>>
  /\ synthesized' = synthesized
       \cup GeneratedNames(fixed_files, validation_results.missing_files, spec, providers)
       \cup Regenerated(fixed_files', validation_results.content_issues)
  /\ validation_results' = validate_terraform_files(fixed_files', providers)
  /\ validations' = validations + 1
  /\ attempt' = attempt + 1
  /\ IF validation_results'.valid
       THEN pc' = "returned" /\ success' = TRUE
       ELSE pc' = "repairing" /\ success' = FALSE
  /\ UNCHANGED <<caller, generated_files, spec, providers, max_retries, written>>
  /\ UNCHANGED mavars
  /\ UNCHANGED fnvars

\* validate_and_fix, lines 67-68: the retry budget is exhausted
GiveUp ==
  /\ pc = "repairing"
  /\ ~LoopContinues(attempt, max_retries)
  /\ pc' = "returned"
  /\ success' = FALSE
  /\ UNCHANGED <<caller, generated_files, spec, providers, max_retries,
                 validation_results, fixed_files, attempt, validations, synthesized,
                 client_constructed, client_called, env_read, written>>
  /\ UNCHANGED mavars
  /\ UNCHANGED fnvars

\* terraform_prototype.main, lines 359-366 and 384-403
MainPersist ==
  /\ pc = "returned"
  /\ caller = "main"
  /\ written' = IF success THEN fixed_files ELSE generated_files
  /\ pc' = "written"
  /\ UNCHANGED <<caller, generated_files, spec, providers, max_retries,
                 validation_results, fixed_files, attempt, validations, synthesized,
                 success, client_constructed, client_called, env_read>>
  /\ UNCHANGED mavars
  /\ UNCHANGED fnvars

\* ------------------------------------------------ multi-agent orchestration
\* scores are in tenths
NumVersions == 2
DefaultQualityThreshold == 8
PassMark == 8
DefaultMaxIterations == 3
UnparsedScore == 5
FallbackScore == 7

QualityThresholds == {DefaultQualityThreshold, 9}
IterationBudgets == {1, DefaultMaxIterations}
ModelShapes == {"empty", "mapping", "records"}
ReplyScores == {6, 8, 9}

\* _format_spec_for_prompt calls model.get on every element of spec.models;
\* the elements of a non-empty mapping are its keys, which are strings
_format_spec_for_prompt_raises(models) == models = "mapping"

Validation(score, passed, issues, critical_issues, lists_ok) ==
  [present |-> TRUE, score |-> score, passed |-> passed, issues |-> issues,
   critical_issues |-> critical_issues, lists_ok |-> lists_ok]

\* validation = None
NoValidation ==
  [present |-> FALSE, score |-> 0, passed |-> FALSE, issues |-> <<>>,
   critical_issues |-> <<>>, lists_ok |-> TRUE]

\* replies of the scoring collaborator: text without a parsable JSON block,
\* or a JSON object with an overall_score and issue lists that are empty,
\* non-empty, or values on which critical_issues + issues[:3] raises, such
\* as null (lists_ok = FALSE)
ScoringReplies ==
  {[parsable |-> FALSE, score |-> 0, kind |-> "empty"]}
  \cup [parsable : {TRUE}, score : ReplyScores, kind : {"empty", "some", "bad"}]

_parse_validation_response(reply) ==
  IF ~reply.parsable
    THEN Validation(UnparsedScore, FALSE, <<"Failed to parse validation response">>,
                    <<"Validation parsing error">>, TRUE)
    ELSE Validation(reply.score, reply.score >= PassMark,
                    IF reply.kind = "some" THEN <<"issue">> ELSE <<>>,
                    IF reply.kind = "some" THEN <<"critical issue">> ELSE <<>>,
                    reply.kind # "bad")

\* mutant: a scoring call that raised is given the report of an unparsed reply
ScoreErrorValidation_Unparsed ==
  Validation(UnparsedScore, FALSE, <<"Validation failed">>, <<"Validation error">>, TRUE)

\* the default result of _validate_code_versions for a scoring call that raised
ScoreErrorValidation ==
  Validation(0, FALSE, <<"Validation failed">>, <<"Validation error">>, TRUE)

\* the results of _fallback_generation
FallbackValidation ==
  Validation(FallbackScore, TRUE, <<"Generated with fallback mode">>, <<>>, TRUE)
ErrorValidation ==
  Validation(0, FALSE, <<"Generation failed">>, <<"System error">>, TRUE)

CodeFiles(producer, n) == [producer |-> producer, n |-> n]
ErrorFiles == CodeFiles("generation_error.txt", 0)

GenerationAttempt(code_files, validation, agent_version) ==
  [code_files |-> code_files, validation |-> validation, agent_version |-> agent_version]

NoAttempt == GenerationAttempt(CodeFiles("none", 0), NoValidation, "")
NoResult == [code_files |-> CodeFiles("none", 0), validation |-> NoValidation]

Pending == [status |-> "pending", validation |-> NoValidation]
Raised == [status |-> "raised", validation |-> NoValidation]
Scored(validation) == [status |-> "done", validation |-> validation]

\* key of attempts.sort: a.validation.score if a.validation else 0
SortKey(a) == IF a.validation.present THEN a.validation.score ELSE 0

\* mutant: among equal keys the last element comes first
RECURSIVE SortDescending_LastOfTies(_)
SortDescending_LastOfTies(seq) ==
  IF seq = <<>> THEN <<>>
  ELSE LET best == CHOOSE i \in 1..Len(seq) :
                     /\ \A j \in 1..Len(seq) : SortKey(seq[j]) <= SortKey(seq[i])
                     /\ \A j \in (i + 1)..Len(seq) : SortKey(seq[j]) < SortKey(seq[i])
           rest == [k \in 1..(Len(seq) - 1) |-> IF k < best THEN seq[k] ELSE seq[k + 1]]
       IN <<seq[best]>> \o SortDescending_LastOfTies(rest)

\* list.sort(key, reverse=True): descending and stable
RECURSIVE SortDescending(_)
SortDescending(seq) ==
  IF seq = <<>> THEN <<>>
  ELSE LET best == CHOOSE i \in 1..Len(seq) :
                     /\ \A j \in 1..Len(seq) : SortKey(seq[j]) <= SortKey(seq[i])
                     /\ \A j \in 1..(i - 1) : SortKey(seq[j]) < SortKey(seq[i])
           rest == [k \in 1..(Len(seq) - 1) |-> IF k < best THEN seq[k] ELSE seq[k + 1]]
       IN <<seq[best]>> \o SortDescending(rest)

_select_best_attempt(seq) == SortDescending(seq)[1]

\* mutant: failed results are not dropped
RECURSIVE Survivors_KeepFailed(_, _)
Survivors_KeepFailed(results, i) ==
  IF i > NumVersions THEN <<>>
  ELSE <<GenerationAttempt(
           CodeFiles(IF i = 1 THEN "generate_primary" ELSE "generate_alternative", i),
           NoValidation,
           IF i = 1 THEN "primary" ELSE "alternative")>>
       \o Survivors_KeepFailed(results, i + 1)

\* mutant: the strategy label is taken from the position among the survivors
RECURSIVE Survivors_LabelBySurvivorIndex(_, _)
Survivors_LabelBySurvivorIndex(results, i) ==
  IF i > NumVersions THEN <<>>
  ELSE (IF results[i] = "ok"
          THEN <<GenerationAttempt(
                   CodeFiles(IF i = 1 THEN "generate_primary" ELSE "generate_alternative", i),
                   NoValidation,
                   IF \A h \in 1..(i - 1) : results[h] # "ok"
                     THEN "primary" ELSE "alternative")>>
          ELSE <<>>) \o Survivors_LabelBySurvivorIndex(results, i + 1)

\* the surviving results of asyncio.gather, in the order of the calls
RECURSIVE Survivors(_, _)
Survivors(results, i) ==
  IF i > NumVersions THEN <<>>
  ELSE (IF results[i] = "ok"
          THEN <<GenerationAttempt(
                   CodeFiles(IF i = 1 THEN "generate_primary" ELSE "generate_alternative", i),
                   NoValidation,
                   IF i = 1 THEN "primary" ELSE "alternative")>>
          ELSE <<>>) \o Survivors(results, i + 1)

MAInit ==
  /\ mpc = "idle"
  /\ quality_threshold = DefaultQualityThreshold
  /\ max_iterations = DefaultMaxIterations
  /\ spec_models = "empty"
  /\ gen_result = [i \in 1..NumVersions |-> "pending"]
  /\ attempts = <<>>
  /\ validation_tasks = <<>>
  /\ score_result = <<>>
  /\ current_attempt = NoAttempt
  /\ selected = NoAttempt
  /\ iteration = 0
  /\ gen_calls = 0
  /\ score_calls = 0
  /\ refine_calls = 0
  /\ fallback_calls = 0
  /\ escaped = FALSE
  /\ fallback_failed = FALSE
  /\ result = NoResult
  /\ returned_files = CodeFiles("none", 0)

NotApplied == [fn |-> "none"]

FnInit ==
  /\ applied = NotApplied
  /\ yielded = NotApplied

Init == VFInit /\ MAInit /\ FnInit

\* generate_cloud_function to _generate_code_versions, lines 680-683: the two
\* generation calls are issued
StartGeneration ==
  /\ mpc = "idle"
  /\ \E q \in QualityThresholds, budget \in IterationBudgets, models \in ModelShapes :
       /\ quality_threshold' = q
       /\ max_iterations' = budget
       /\ spec_models' = models
  /\ mpc' = "generating"
  /\ gen_calls' = NumVersions
  /\ UNCHANGED <<gen_result, attempts, score_result, current_attempt, selected,
                 iteration, score_calls, refine_calls, fallback_calls, escaped,
                 fallback_failed, result, returned_files>>
  /\ UNCHANGED validation_tasks
  /\ UNCHANGED vfvars
  /\ UNCHANGED fnvars

\* one of the generation calls completes, in any order
GenerationCompletes ==
  /\ mpc = "generating"
  /\ \E i \in 1..NumVersions :
       /\ gen_result[i] = "pending"
       /\ \E outcome \in (IF _format_spec_for_prompt_raises(spec_models)
                            THEN {"failed"} ELSE {"ok", "failed"}) :
            gen_result' = [gen_result EXCEPT ![i] = outcome]
  /\ UNCHANGED <<mpc, quality_threshold, max_iterations, spec_models, attempts,
                 score_result, current_attempt, selected, iteration, gen_calls,
                 score_calls, refine_calls, fallback_calls, escaped,
                 fallback_failed, result, returned_files>>
  /\ UNCHANGED validation_tasks
  /\ UNCHANGED vfvars
  /\ UNCHANGED fnvars

\* mutant: the results are taken as soon as one generation call has completed
GenerationGathered_FirstCompleted ==
  \E i \in 1..NumVersions : gen_result[i] # "pending"

\* await asyncio.gather(primary_task, alternative_task), line 683: every
\* generation call has completed
GenerationGathered ==
  \A i \in 1..NumVersions : gen_result[i] # "pending"

\* lines 683-700 and 705-713: gather returns, failed results are dropped and
\* a scoring call is issued per surviving attempt; with no attempt,
\* _select_best_attempt raises and the except clause is entered
JoinGeneration ==
  /\ mpc = "generating"
  /\ GenerationGathered
  /\ attempts' = Survivors(gen_result, 1)
  /\ IF attempts' = <<>>
       THEN /\ mpc' = "fallback"
            /\ escaped' = TRUE
            /\ UNCHANGED <<validation_tasks, score_result, score_calls>>
       ELSE /\ mpc' = "validating"
            /\ validation_tasks' = [j \in 1..Len(attempts') |-> attempts'[j].code_files]
            /\ score_result' = [j \in 1..Len(attempts') |-> Pending]
            /\ score_calls' = Len(attempts')
            /\ UNCHANGED escaped
  /\ UNCHANGED <<quality_threshold, max_iterations, spec_models, gen_result,
                 current_attempt, selected, iteration, gen_calls, refine_calls,
                 fallback_calls, fallback_failed, result, returned_files>>
  /\ UNCHANGED vfvars
  /\ UNCHANGED fnvars

\* one of the scoring calls completes, in any order
ScoringCompletes ==
  /\ mpc = "validating"
  /\ \E j \in 1..Len(attempts) :
       /\ score_result[j].status = "pending"
       /\ \/ score_result' = [score_result EXCEPT ![j] = Raised]
          \/ /\ ~_format_spec_for_prompt_raises(spec_models)
             /\ \E reply \in ScoringReplies :
                  score_result' =
                    [score_result EXCEPT ![j] = Scored(_parse_validation_response(reply))]
  /\ UNCHANGED <<mpc, quality_threshold, max_iterations, spec_models, gen_result,
                 attempts, current_attempt, selected, iteration, gen_calls,
                 score_calls, refine_calls, fallback_calls, escaped,
                 fallback_failed, result, returned_files>>
  /\ UNCHANGED validation_tasks
  /\ UNCHANGED vfvars
  /\ UNCHANGED fnvars

\* lines 713-727, 658-668: gather returns, every attempt gets its validation,
\* the best attempt is selected and returned unless it has not passed
JoinValidation ==
  /\ mpc = "validating"
  /\ \A j \in 1..Len(attempts) : score_result[j].status # "pending"
  /\ LET validated ==
           [j \in 1..Len(attempts) |->
              [attempts[j] EXCEPT !.validation =
                 IF score_result[j].status = "raised"
                   THEN ScoreErrorValidation ELSE score_result[j].validation]]
         best == _select_best_attempt(validated)
     IN /\ attempts' = SortDescending(validated)
        /\ selected' = best
        /\ current_attempt' = best
        /\ IF best.validation.passed
             THEN /\ mpc' = "done"
                  /\ result' = [code_files |-> best.code_files,
                                validation |-> best.validation]
             ELSE /\ mpc' = "refining"
                  /\ UNCHANGED result
  /\ iteration' = 0
  /\ UNCHANGED <<quality_threshold, max_iterations, spec_models, gen_result,
                 score_result, gen_calls, score_calls, refine_calls,
                 fallback_calls, escaped, fallback_failed, returned_files>>
  /\ UNCHANGED validation_tasks
  /\ UNCHANGED vfvars
  /\ UNCHANGED fnvars

\* issues_to_fix = critical_issues + issues[:3]
issues_to_fix(validation) ==
  validation.critical_issues \o SubSeq(validation.issues, 1,
                                       IF Len(validation.issues) < 3
                                         THEN Len(validation.issues) ELSE 3)

LoopExits ==
  \/ iteration >= max_iterations
  \/ current_attempt.validation.score >= quality_threshold
  \/ (current_attempt.validation.lists_ok /\ issues_to_fix(current_attempt.validation) = <<>>)

\* _refinement_loop, lines 747-749, 759-760, 785: the loop ends
RefinementReturns ==
  /\ mpc = "refining"
  /\ LoopExits
  /\ mpc' = "done"
  /\ result' = [code_files |-> current_attempt.code_files,
                validation |-> current_attempt.validation]
  /\ UNCHANGED <<quality_threshold, max_iterations, spec_models, gen_result,
                 attempts, score_result, current_attempt, selected, iteration,
                 gen_calls, score_calls, refine_calls, fallback_calls, escaped,
                 fallback_failed, returned_files>>
  /\ UNCHANGED validation_tasks
  /\ UNCHANGED vfvars
  /\ UNCHANGED fnvars

\* lines 754-757: the concatenation raises on issue lists that are not lists;
\* the exception leaves the loop and reaches the except clause of line 670
RefinementEscapes ==
  /\ mpc = "refining"
  /\ ~LoopExits
  /\ ~current_attempt.validation.lists_ok
  /\ mpc' = "fallback"
  /\ escaped' = TRUE
  /\ UNCHANGED <<quality_threshold, max_iterations, spec_models, gen_result,
                 attempts, score_result, current_attempt, selected, iteration,
                 gen_calls, score_calls, refine_calls, fallback_calls,
                 fallback_failed, result, returned_files>>
  /\ UNCHANGED validation_tasks
  /\ UNCHANGED vfvars
  /\ UNCHANGED fnvars

\* lines 763-783: a refinement call and, when it succeeds, a scoring call;
\* a failure of either ends the loop with the current attempt
RefinementIteration ==
  /\ mpc = "refining"
  /\ ~LoopExits
  /\ current_attempt.validation.lists_ok
  /\ refine_calls' = refine_calls + 1
  /\ \/ \* refine_code raised
        /\ mpc' = "done"
        /\ result' = [code_files |-> current_attempt.code_files,
                      validation |-> current_attempt.validation]
        /\ UNCHANGED <<current_attempt, iteration, score_calls>>
     \/ \* refine_code returned, validate raised
        /\ ~_format_spec_for_prompt_raises(spec_models)
        /\ score_calls' = score_calls + 1
        /\ mpc' = "done"
        /\ result' = [code_files |-> current_attempt.code_files,
                      validation |-> current_attempt.validation]
        /\ UNCHANGED <<current_attempt, iteration>>
     \/ \* both returned
        /\ ~_format_spec_for_prompt_raises(spec_models)
        /\ score_calls' = score_calls + 1
        /\ \E reply \in ScoringReplies :
             current_attempt' =
               GenerationAttempt(
                 CodeFiles("refine_code", iteration + 1),
                 _parse_validation_response(reply),
                 current_attempt.agent_version \o "_refined_" \o ToString(iteration + 1))
        /\ iteration' = iteration + 1
        /\ UNCHANGED <<mpc, result>>
  /\ UNCHANGED <<quality_threshold, max_iterations, spec_models, gen_result,
                 attempts, score_result, selected, gen_calls, fallback_calls,
                 escaped, fallback_failed, returned_files>>
  /\ UNCHANGED validation_tasks
  /\ UNCHANGED vfvars
  /\ UNCHANGED fnvars

\* mutant: the except clause of _fallback_generation re-raises
FallbackGeneration_Reraises ==
  /\ mpc = "fallback"
  /\ gen_calls' = gen_calls + 1
  /\ fallback_calls' = fallback_calls + 1
  /\ \/ /\ ~_format_spec_for_prompt_raises(spec_models)
        /\ result' = [code_files |-> CodeFiles("generate_primary", 0),
                      validation |-> FallbackValidation]
        /\ UNCHANGED fallback_failed
        /\ mpc' = "done"
     \/ /\ UNCHANGED result
        /\ fallback_failed' = TRUE
        /\ mpc' = "raised"
  /\ UNCHANGED <<quality_threshold, max_iterations, spec_models, gen_result,
                 attempts, score_result, current_attempt, selected, iteration,
                 score_calls, refine_calls, escaped, returned_files>>
  /\ UNCHANGED validation_tasks
  /\ UNCHANGED vfvars
  /\ UNCHANGED fnvars

\* _fallback_generation, lines 787-815
FallbackGeneration ==
  /\ mpc = "fallback"
  /\ gen_calls' = gen_calls + 1
  /\ fallback_calls' = fallback_calls + 1
  /\ \/ /\ ~_format_spec_for_prompt_raises(spec_models)
        /\ result' = [code_files |-> CodeFiles("generate_primary", 0),
                      validation |-> FallbackValidation]
        /\ UNCHANGED fallback_failed
     \/ /\ result' = [code_files |-> ErrorFiles, validation |-> ErrorValidation]
        /\ fallback_failed' = TRUE
  /\ mpc' = "done"
  /\ UNCHANGED <<quality_threshold, max_iterations, spec_models, gen_result,
                 attempts, score_result, current_attempt, selected, iteration,
                 score_calls, refine_calls, escaped, returned_files>>
  /\ UNCHANGED validation_tasks
  /\ UNCHANGED vfvars
  /\ UNCHANGED fnvars

\* MultiAgentCodeGenerator.generate_cloud_function, lines 840-855
ReturnCodeFiles ==
  /\ mpc = "done"
  /\ returned_files' = result.code_files
  /\ mpc' = "returned"
  /\ UNCHANGED <<quality_threshold, max_iterations, spec_models, gen_result,
                 attempts, score_result, current_attempt, selected, iteration,
                 gen_calls, score_calls, refine_calls, fallback_calls, escaped,
                 fallback_failed, result>>
  /\ UNCHANGED validation_tasks
  /\ UNCHANGED vfvars
  /\ UNCHANGED fnvars

MANext ==
  \/ StartGeneration \/ GenerationCompletes \/ JoinGeneration
  \/ ScoringCompletes \/ JoinValidation
  \/ RefinementReturns \/ RefinementEscapes \/ RefinementIteration
  \/ FallbackGeneration \/ ReturnCodeFiles

MASpec == Init /\ [][MANext]_vars

VFNext == DirectCall \/ MainCall \/ RepairIteration \/ GiveUp \/ MainPersist

Spec == Init /\ [][VFNext]_vars

\* ------------------------------------------- parsing and single-call paths
\* the file names _extract_files_with_regex looks for
RegexFilenames ==
  {"index.js", "package.json", "Dockerfile", "README.md", "main.js", "app.js"}

\* file names a reply mentions: one the regex extraction knows, one it does not
ReplyFilenames == {"index.js", "server.py"}
ReplyContents == {"", "code"}

\* the "name": "value" pairs a reply text contains; "" is an empty value
\* directly followed by an end pattern of line 383, which gives content_end = 0
ReplyEntries ==
  UNION {[names -> ReplyContents] : names \in SUBSET ReplyFilenames}

\* a reply text:
\*   block    whether the text has no ```json marker, a ```json block closed
\*            by ```, or a ```json marker with no closing ```
\*   json     the stripped block content: a well-formed object of the entries,
\*            that object without its closing brace, an object with a value
\*            that is not a string, a well-formed array, or no JSON at all
\*   slow, regex_slow   the alarm fires during json.loads, during re.search
Replies ==
  [block : {"none", "closed", "open"},
   json : {"object", "unclosed", "non_string", "array", "invalid"},
   entries : ReplyEntries,
   slow : BOOLEAN,
   regex_slow : BOOLEAN]

\* lines 291-323: what the try block comes to: the decoded dict, a
\* JSONDecodeError or TimeoutError, or another exception
Decoded(response) ==
  IF response.block = "none" THEN "exception"
  ELSE IF response.slow THEN "decode_error"
  ELSE IF response.json = "object" THEN "dict"
  ELSE IF response.json = "unclosed"
    THEN (IF response.block = "open" THEN "dict" ELSE "decode_error")
  ELSE IF response.json = "non_string" THEN "exception"
  ELSE IF response.json = "array"
    THEN (IF response.block = "open" THEN "decode_error" ELSE "exception")
  ELSE "decode_error"

\* {"generated_code.txt": response}, possibly truncated
GeneratedCodeTxt == [name \in {"generated_code.txt"} |-> "response"]

_extract_files_with_regex(response) ==
  LET found == {name \in DOMAIN response.entries \cap RegexFilenames :
                  response.entries[name] # ""}
      files == [name \in found |-> response.entries[name]]
  IN IF response.regex_slow THEN GeneratedCodeTxt
     ELSE IF found # {} THEN files
     ELSE GeneratedCodeTxt

_parse_code_response(response) ==
  CASE Decoded(response) = "dict" -> response.entries
    [] Decoded(response) = "decode_error" -> _extract_files_with_regex(response)
    [] OTHER -> GeneratedCodeTxt

Returns(fn, value) == [fn |-> fn, raised |-> FALSE, value |-> value]
Raises(fn, exception) == [fn |-> fn, raised |-> TRUE, value |-> exception]

\* CodeGeneratorAgent._parse_code_response applied to a reply
ParseCodeResponse ==
  /\ applied = NotApplied
  /\ \E response \in Replies :
       /\ applied' = [fn |-> "_parse_code_response", arg |-> response]
       /\ yielded' = Returns("_parse_code_response", _parse_code_response(response))
  /\ UNCHANGED vfvars
  /\ UNCHANGED mavars

\* what client.messages.create does in a single-call path: it returns a
\* reply, or raises (authentication, rate limit, timeout)
CollaboratorOutcomes == {"reply", "auth_error", "rate_limit", "timeout"}

\* CodeGenerator._fallback_generation: the three template files
_fallback_generation(service) ==
  [name \in {"index.js", "package.json", "Dockerfile"} |->
     [origin |-> "template", name |-> service_name(service)]]

\* the files parsed from a reply of the collaborator
ReplyFiles(names) == [name \in names |-> [origin |-> "collaborator", name |-> ""]]

\* CodeGenerator.generate_cloud_function, lines 62-105
generate_cloud_function(service, collaborator) ==
  IF collaborator = "reply"
    THEN Returns("generate_cloud_function",
                 ReplyFiles({"index.js", "package.json", "Dockerfile"}))
    ELSE Returns("generate_cloud_function", _fallback_generation(service))

\* TerraformCodeGenerator.generate_multi_cloud_deployment, lines 23-73
generate_multi_cloud_deployment(service, provs, collaborator) ==
  IF collaborator = "reply"
    THEN Returns("generate_multi_cloud_deployment",
                 ReplyFiles({"main.tf", "variables.tf", "outputs.tf", "index.js",
                             "package.json", "Dockerfile"}
                            \cup {tfvars_file(provider) : provider \in provs}))
    ELSE Raises("generate_multi_cloud_deployment",
                "Failed to generate Terraform configuration")

GenerateCloudFunction ==
  /\ applied = NotApplied
  /\ \E service \in ServiceSpec, collaborator \in CollaboratorOutcomes :
       /\ applied' = [fn |-> "generate_cloud_function",
                      arg |-> [spec |-> service, collaborator |-> collaborator]]
       /\ yielded' = generate_cloud_function(service, collaborator)
  /\ UNCHANGED vfvars
  /\ UNCHANGED mavars

GenerateMultiCloudDeployment ==
  /\ applied = NotApplied
  /\ \E service \in ServiceSpec, provs \in parse_providers,
        collaborator \in CollaboratorOutcomes :
       /\ applied' = [fn |-> "generate_multi_cloud_deployment",
                      arg |-> [spec |-> service, providers |-> provs,
                               collaborator |-> collaborator]]
       /\ yielded' = generate_multi_cloud_deployment(service, provs, collaborator)
  /\ UNCHANGED vfvars
  /\ UNCHANGED mavars

\* ---------------------------------------------------------- SpecParser.parse
MaxLines == 4

\* a stripped line of the specification text, by the branch of lines 47-97
\* that can take it, with the space-separated parts of the text that follows
\* its marker:
\*   "name"      # Service Name: <words>      "section"  ## <words>
\*   "h3"        ### <words>                  "item"     - <words>
\*   "other"     anything else, such as a blank line
Line(kind, words) == [kind |-> kind, words |-> words]

Lines ==
  {Line("name", <<"Demo">>),
   Line("section", <<"Endpoints">>),
   Line("section", <<"Models">>),
   Line("h3", <<"GET", "/health">>),
   Line("h3", <<"User">>),
   Line("h3", <<"Product">>),
   Line("h3", <<"###", "GET", "/health">>),
   Line("item", <<"Description:", "ok">>),
   Line("item", <<"id:", "string">>),
   Line("other", <<>>)}

\* spec_content.split('\n') after line.strip(): at least one line
SpecContents == UNION {[1..n -> Lines] : n \in 1..MaxLines}

\* "".split('\n') is ['']
EmptySpecContent == <<Line("other", <<>>)>>

\* ' '.join(words)
RECURSIVE Join(_)
Join(words) ==
  IF words = <<>> THEN ""
  ELSE IF Len(words) = 1 THEN words[1]
  ELSE words[1] \o " " \o Join(Tail(words))

\* the text of a line after its marker
Remainder(line) == Join(line.words)

\* text.replace(marker + ' ', ''): every occurrence of the marker that a space
\* follows is removed, not only the one the line starts with
RECURSIVE WithoutMarker(_, _)
WithoutMarker(words, marker) ==
  IF Len(words) <= 1 THEN words
  ELSE IF Head(words) = marker THEN WithoutMarker(Tail(words), marker)
  ELSE <<Head(words)>> \o WithoutMarker(Tail(words), marker)

\* text.strip()
RECURSIVE StripWords(_)
StripWords(words) ==
  IF words = <<>> THEN <<>>
  ELSE IF Head(words) = "" THEN StripWords(Tail(words))
  ELSE IF words[Len(words)] = "" THEN StripWords(SubSeq(words, 1, Len(words) - 1))
  ELSE words

\* text.replace(key, '').strip(): every occurrence of the key is removed
WithoutKey(words, key) ==
  StripWords([i \in 1..Len(words) |-> IF words[i] = key THEN "" ELSE words[i]])

\* a Python dict of lists, with its insertion order
EmptyDict == [type |-> "dict", names |-> <<>>, fields |-> <<>>]
HasKey(d, key) == \E i \in 1..Len(d.names) : d.names[i] = key
KeyIndex(d, key) == CHOOSE i \in 1..Len(d.names) : d.names[i] = key

\* d[key] = []
SetEmpty(d, key) ==
  IF HasKey(d, key)
    THEN [d EXCEPT !.fields[KeyIndex(d, key)] = <<>>]
    ELSE [d EXCEPT !.names = Append(@, key), !.fields = Append(@, <<>>)]

\* d[key].append(x)
AppendTo(d, key, x) == [d EXCEPT !.fields[KeyIndex(d, key)] = Append(@, x)]

\* mutant: no default runtime
ParserStart_NoDefaultRuntime ==
  [name |-> "", description |-> "", runtime |-> "",
   endpoints |-> <<>>, models |-> EmptyDict,
   current_section |-> "None", current_endpoint |-> 0, current_model |-> "None"]

\* spec_data and the three cursors before the first line, lines 28-41
ParserStart ==
  [name |-> "", description |-> "", runtime |-> "Node.js 20",
   endpoints |-> <<>>, models |-> EmptyDict,
   current_section |-> "None", current_endpoint |-> 0, current_model |-> "None"]

\* the endpoint of lines 70-77
NewEndpoint(line) ==
  LET method_path == WithoutMarker(line.words, "###")
  IN [method |-> Head(method_path),
      path |-> IF Len(method_path) > 1 THEN Join(Tail(method_path)) ELSE "/",
      description |-> "", input |-> "None", output |-> "None", auth |-> "None"]

\* lines 81-88: a recognised key sets its field of the current endpoint
SetEndpointField(endpoint, line) ==
  LET key == Head(line.words)
      value == Join(WithoutKey(line.words, key))
  IN CASE key = "Description:" -> [endpoint EXCEPT !.description = value]
       [] key = "Input:" -> [endpoint EXCEPT !.input = value]
       [] key = "Output:" -> [endpoint EXCEPT !.output = value]
       [] key = "Auth:" -> [endpoint EXCEPT !.auth = value]
       [] OTHER -> endpoint

\* one iteration of the loop of lines 43-97
ParseLine(st, line) ==
  CASE line.kind = "name" -> [st EXCEPT !.name = Remainder(line)]
    [] line.kind = "section" /\ line.words = <<"Endpoints">> ->
         [st EXCEPT !.current_section = "endpoints"]
    [] line.kind = "section" /\ line.words = <<"Models">> ->
         [st EXCEPT !.current_section = "models"]
    [] line.kind = "h3" /\ st.current_section = "endpoints" ->
         [st EXCEPT !.endpoints = Append(@, NewEndpoint(line)),
                    !.current_endpoint = Len(st.endpoints) + 1]
    [] line.kind = "item" /\ st.current_section = "endpoints"
         /\ st.current_endpoint # 0 ->
         [st EXCEPT !.endpoints[st.current_endpoint] = SetEndpointField(@, line)]
    [] line.kind = "h3" /\ st.current_section = "models" ->
         [st EXCEPT !.models = SetEmpty(@, Join(WithoutMarker(line.words, "###"))),
                    !.current_model = Join(WithoutMarker(line.words, "###"))]
    [] line.kind = "item" /\ st.current_section = "models"
         /\ st.current_model # "None" ->
         [st EXCEPT !.models = AppendTo(@, st.current_model, Remainder(line))]
    [] OTHER -> st

RECURSIVE ParseLines(_, _)
ParseLines(st, lines) ==
  IF lines = <<>> THEN st ELSE ParseLines(ParseLine(st, Head(lines)), Tail(lines))

\* SpecParser.parse: ServiceSpec(**spec_data)
parse(spec_content) ==
  LET st == ParseLines(ParserStart, spec_content)
  IN [name |-> st.name, description |-> st.description, runtime |-> st.runtime,
      endpoints |-> st.endpoints, models |-> st.models]

Parse ==
  /\ applied = NotApplied
  /\ \E spec_content \in SpecContents :
       /\ applied' = [fn |-> "parse", arg |-> spec_content]
       /\ yielded' = Returns("parse", parse(spec_content))
  /\ UNCHANGED vfvars
  /\ UNCHANGED mavars

\* ------------------------------------------------------------ validate_spec
MaxEndpoints == 2

\* an error string and the endpoint it is about (0: the document)
SpecError(error, endpoint) == [error |-> error, endpoint |-> endpoint]

\* mutant: an endpoint with several defects is reported once
RECURSIVE EndpointErrors_FirstDefectOnly(_, _)
EndpointErrors_FirstDefectOnly(endpoints, i) ==
  IF i > Len(endpoints) THEN <<>>
  ELSE (IF endpoints[i].method = ""
          THEN <<SpecError("HTTP method is required", i)>>
          ELSE IF endpoints[i].path = ""
            THEN <<SpecError("Path is required", i)>>
            ELSE <<>>)
       \o EndpointErrors_FirstDefectOnly(endpoints, i + 1)

\* the errors of the endpoints from the i-th on: an empty method and an empty
\* path are each their own error
RECURSIVE EndpointErrors(_, _)
EndpointErrors(endpoints, i) ==
  IF i > Len(endpoints) THEN <<>>
  ELSE (IF endpoints[i].method = ""
          THEN <<SpecError("HTTP method is required", i)>> ELSE <<>>)
       \o (IF endpoints[i].path = ""
             THEN <<SpecError("Path is required", i)>> ELSE <<>>)
       \o EndpointErrors(endpoints, i + 1)

\* SpecParser.validate_spec: the ordered sequence of errors of a document
validate_spec(document) ==
  (IF document.name = "" THEN <<SpecError("Service name is required", 0)>> ELSE <<>>)
  \o (IF document.endpoints = <<>>
        THEN <<SpecError("At least one endpoint must be defined", 0)>> ELSE <<>>)
  \o EndpointErrors(document.endpoints, 1)

\* documents built directly, as ServiceSpec(name=..., endpoints=[...], models=[])
Endpoint(method, path) ==
  [method |-> method, path |-> path, description |-> "",
   input |-> "None", output |-> "None", auth |-> "None"]

Endpoints == {Endpoint(method, path) : method \in {"", "GET"}, path \in {"", "/health"}}

Documents ==
  [name : SpecNames, description : {""}, runtime : {"Node.js 20"},
   endpoints : UNION {[1..n -> Endpoints] : n \in 0..MaxEndpoints},
   models : {[type |-> "list", names |-> <<>>, fields |-> <<>>]}]

\* validate_spec applied to a document built directly
ValidateSpec ==
  /\ applied = NotApplied
  /\ \E document \in Documents :
       /\ applied' = [fn |-> "validate_spec", arg |-> document]
       /\ yielded' = Returns("validate_spec", validate_spec(document))
  /\ UNCHANGED vfvars
  /\ UNCHANGED mavars

\* handle_generate: validate_spec applied to the document parse returned
ValidateParsed ==
  /\ applied = NotApplied
  /\ \E spec_content \in SpecContents :
       /\ applied' = [fn |-> "validate_spec", arg |-> parse(spec_content)]
       /\ yielded' = Returns("validate_spec", validate_spec(parse(spec_content)))
  /\ UNCHANGED vfvars
  /\ UNCHANGED mavars

\* ------------------------------------------------------ pipeline entry points
\* a step of an entry point: what it is, and what the entry point does when the
\* step reports a failure and when it raises ("exit": sys.exit(1), also by the
\* except clause around it; "continue": goes on; "none": cannot happen)
Step(name, category, on_failed, on_raised) ==
  [name |-> name, category |-> category, on_failed |-> on_failed, on_raised |-> on_raised]

Outcomes(step) ==
  {"ok"} \cup (IF step.on_failed = "none" THEN {} ELSE {"failed"})
         \cup (IF step.on_raised = "none" THEN {} ELSE {"raised"})

Handling(step, outcome) ==
  CASE outcome = "ok" -> "continue"
    [] outcome = "failed" -> step.on_failed
    [] outcome = "raised" -> step.on_raised

\* the outcome sequences of the steps an entry point runs: a step handled by
\* "exit" is the last one
RECURSIVE Runs(_)
Runs(steps) ==
  IF steps = <<>> THEN {<<>>}
  ELSE UNION { IF Handling(Head(steps), o) = "exit"
                 THEN {<<o>>}
                 ELSE {<<o>> \o rest : rest \in Runs(Tail(steps))}
               : o \in Outcomes(Head(steps)) }

\* the exit status of the process: 1 by sys.exit(1), 0 when main returns
ExitStatus(steps, run) ==
  IF run # <<>> /\ Handling(steps[Len(run)], run[Len(run)]) = "exit" THEN 1 ELSE 0

Exits(fn, status) == [fn |-> fn, raised |-> FALSE, status |-> status]

Commands == {"generate", "deploy", "list", "logs", "delete"}

\* cli.py main and its handlers; every exception but SystemExit is caught by
\* main, lines 131-136, and ends in sys.exit(1)
CliSteps(command) ==
  <<Step("validate_environment", "other", "exit", "exit")>> \o
  CASE command = "generate" ->
         <<Step("read_spec", "other", "exit", "exit"),
           Step("validate_spec", "spec_validation", "exit", "exit"),
           Step("generate_cloud_function", "generation", "none", "exit"),
           Step("write_files", "other", "none", "exit")>>
    [] command = "deploy" ->
         <<Step("is_safe_project_id", "other", "exit", "none"),
           Step("read_spec", "other", "none", "exit"),
           Step("is_safe_service_name", "other", "exit", "none"),
           Step("generate_cloud_function", "generation", "none", "exit"),
           Step("write_files", "other", "none", "exit"),
           Step("validate_config", "other", "exit", "exit"),
           Step("deploy", "deployment", "exit", "exit")>>
    [] command = "list" -> <<Step("list_services", "other", "none", "exit")>>
    [] command = "logs" -> <<Step("get_logs", "other", "none", "exit")>>
    [] command = "delete" -> <<Step("delete_service", "other", "exit", "exit")>>

\* prototype.py main without --validate-only
PrototypeSteps ==
  <<Step("validate_configuration", "other", "exit", "none"),
    Step("read_spec", "other", "exit", "exit"),
    Step("parse", "other", "none", "exit"),
    Step("spec_warnings", "spec_validation", "continue", "none"),
    Step("generate_cloud_function", "generation", "exit", "exit"),
    Step("makedirs", "other", "none", "exit"),
    Step("write_files", "other", "none", "exit"),
    Step("project_id", "other", "exit", "none"),
    Step("required_files", "artifact_validation", "exit", "none"),
    Step("validate_content", "artifact_validation", "continue", "none"),
    Step("deploy", "deployment", "continue", "exit")>>

\* terraform_prototype.py main in the Terraform workflow, without
\* --validate-only and --terraform-destroy
TerraformPrototypeSteps(terraform_plan_only, dry_run) ==
  <<Step("validate_configuration", "other", "exit", "none"),
    Step("read_spec", "other", "exit", "exit"),
    Step("parse", "other", "none", "exit"),
    Step("spec_warnings", "spec_validation", "continue", "none"),
    Step("makedirs", "other", "none", "exit"),
    Step("generate_multi_cloud_deployment", "generation", "exit", "exit"),
    Step("validate_and_fix", "artifact_validation", "continue", "exit"),
    Step("write_files", "other", "none", "exit"),
    Step("init_terraform", "other", "exit", "exit"),
    Step("terraform_validate", "artifact_validation", "exit", "exit")>> \o
  (IF terraform_plan_only
     THEN <<Step("init_terraform", "other", "exit", "exit"),
            Step("plan_deployment", "deployment", "exit", "exit")>>
     ELSE IF dry_run THEN <<>>
     ELSE <<Step("build_and_push", "other", "exit", "exit"),
            Step("deploy", "deployment", "exit", "exit")>>)

\* one run of an entry point
Run(fn, steps) ==
  \E run \in Runs(steps) :
    /\ applied' = [fn |-> fn, arg |-> [steps |-> steps, run |-> run]]
    /\ yielded' = Exits(fn, ExitStatus(steps, run))

CliMain ==
  /\ applied = NotApplied
  /\ \E command \in Commands : Run("cli.main", CliSteps(command))
  /\ UNCHANGED vfvars
  /\ UNCHANGED mavars

PrototypeMain ==
  /\ applied = NotApplied
  /\ Run("prototype.main", PrototypeSteps)
  /\ UNCHANGED vfvars
  /\ UNCHANGED mavars

TerraformPrototypeMain ==
  /\ applied = NotApplied
  /\ \E terraform_plan_only \in BOOLEAN, dry_run \in BOOLEAN :
       Run("terraform_prototype.main", TerraformPrototypeSteps(terraform_plan_only, dry_run))
  /\ UNCHANGED vfvars
  /\ UNCHANGED mavars

FnNext ==
  \/ ParseCodeResponse
  \/ Parse
  \/ ValidateSpec \/ ValidateParsed
  \/ GenerateCloudFunction \/ GenerateMultiCloudDeployment
  \/ CliMain \/ PrototypeMain \/ TerraformPrototypeMain

FnSpec == Init /\ [][FnNext]_vars

\* ------------------------------------------------------------------ claims
Returned == pc \in {"returned", "written"}
InputReport == validate_terraform_files(generated_files, providers)

\* C1: validate_and_fix returns success = true if and only if the artifact
\* set it returns has no missing file and no content issue for the given
\* target kinds.
C1_SuccessIffValid ==
  Returned =>
    LET r == validate_terraform_files(fixed_files, providers)
    IN success <=> (r.missing_files = {} /\ r.content_issues = {})

C1_Witness_RepairedTrue == Returned /\ success /\ attempt >= 1

\* C2: started on an empty artifact set with max_retries >= 1, for every
\* specification and every non-empty provider combination, validate_and_fix
\* returns success = true.
C2_RoundTripConverges ==
  (Returned /\ generated_files = NoFile /\ max_retries >= 1 /\ providers # {})
    => success

C4_IdempotentOnValid ==
  (Returned /\ InputReport.valid) =>
    /\ success
    /\ fixed_files = generated_files
    /\ synthesized = {}
    /\ attempt = 0
    /\ ~client_constructed

C4_Witness_ValidInput == Returned /\ InputReport.valid /\ success

\* C5: when validate_and_fix returns false, main writes the artifact set that
\* validate_and_fix returned.
C5_FailedRepairPersisted ==
  (pc = "written" /\ ~success) => written = fixed_files

\* C6: no collaborator client is constructed or called during the call, and
\* the returned artifact set is the same under every environment.
C6_RepairIsPure ==
  /\ ~client_constructed
  /\ ~client_called
  /\ Returned => \A env \in Environments :
       fixed_files = ReturnedFiles(generated_files, spec, providers, max_retries, env)

\* C7: for providers gcp and/or aws, when the only defect of the input is
\* that outputs.tf is absent, the first repair iteration adds the synthesized
\* outputs.tf, which declares a service_url output, the next validation pass
\* is valid and the call returns true.
OnlyOutputsMissing ==
  /\ InputReport.missing_files = {"outputs.tf"}
  /\ InputReport.content_issues = {}
  /\ providers # {}
  /\ providers \subseteq {"gcp", "aws"}

C7_MissingOutputsRepaired ==
  (Returned /\ OnlyOutputsMissing /\ max_retries >= 1) =>
    /\ success
    /\ attempt = 1
    /\ "outputs.tf" \in DOMAIN fixed_files
    /\ fixed_files["outputs.tf"].origin = "gen"
    /\ Contains(fixed_files["outputs.tf"], "output \"service_url\"")
    /\ \A f \in DOMAIN generated_files : fixed_files[f] = generated_files[f]

C7_Witness_OutputsAdded ==
  Returned /\ OnlyOutputsMissing /\ max_retries >= 1 /\ success

NumOk == Cardinality({i \in 1..NumVersions : gen_result[i] = "ok"})
AllGenerationFailed == \A i \in 1..NumVersions : gen_result[i] = "failed"
Finished == mpc \in {"done", "returned"}

\* C8: whatever generation, scoring, refinement and fallback calls fail,
\* generate_with_validation does not raise: every run that has started can
\* take a step until it returns, and it returns an artifact set and a score
\* report.
C8_AlwaysReturnsPair ==
  /\ mpc # "raised"
  /\ (mpc \notin {"idle", "returned"}) => ENABLED MANext
  /\ Finished => (result.validation.present /\ result.code_files.producer # "none")

C8_Witness_AllFailedStillReturns == mpc = "done" /\ AllGenerationFailed /\ fallback_failed

\* C9: when all generation calls and the fallback generation call fail,
\* generate_cloud_function does not return an artifact set.
C9_TotalFailurePropagates ==
  ~(mpc = "returned" /\ AllGenerationFailed /\ fallback_failed)

\* C10 as stated: when some generation call succeeded, the fallback generation
\* call is not made.
C10_FallbackOnlyWhenAllFail ==
  NumOk > 0 => fallback_calls = 0

\* C10 as amended: failed generation calls are dropped, scoring and selection
\* run over the survivors only; the fallback call is made when all generation
\* calls failed, and otherwise only when the refinement loop raised on a score
\* report whose issue lists are not lists.
C10_SurvivorsOnlyFallbackOnEscape ==
  /\ (mpc \notin {"idle", "generating"}) =>
       /\ Len(attempts) = NumOk
       /\ \A j \in 1..Len(attempts) : gen_result[attempts[j].code_files.n] = "ok"
       /\ Len(score_result) = NumOk
       /\ (mpc = "validating" => score_calls = NumOk)
  /\ selected # NoAttempt =>
       /\ selected.code_files.producer \in {"generate_primary", "generate_alternative"}
       /\ gen_result[selected.code_files.n] = "ok"
  /\ (Finished /\ AllGenerationFailed) =>
       (fallback_calls = 1 /\ score_calls = 0 /\ refine_calls = 0)
  /\ (fallback_calls > 0 /\ NumOk > 0) =>
       /\ escaped
       /\ ~current_attempt.validation.lists_ok
       /\ current_attempt.validation.score < quality_threshold
  /\ fallback_calls <= 1

C10_Witness_OneSurvivorSelected ==
  /\ Finished
  /\ NumOk = 1
  /\ fallback_calls = 0
  /\ selected.code_files.n \in 1..NumVersions
  /\ gen_result[selected.code_files.n] = "ok"

\* the scoring phase is over: every attempt carries a report
Validated == score_result # <<>> /\ mpc # "validating"

\* what the j-th scoring call delivered to _validate_code_versions
Delivered(j, validation) ==
  IF score_result[j].status = "raised"
    THEN validation.present /\ validation.score = 0 /\ ~validation.passed
    ELSE validation = score_result[j].validation

\* C11: a candidate whose scoring call raised carries a report with score 0.0
\* and passed = false, every other candidate carries the report its own scoring
\* call returned, and the run goes on to selection instead of the except clause
C11_ScoringFailureYieldsZeroReport ==
  /\ [](Validated =>
          \A j \in 1..Len(score_result) :
            \E k \in 1..Len(attempts) :
              /\ attempts[k].code_files = validation_tasks[j]
              /\ Delivered(j, attempts[k].validation))
  /\ [][(mpc = "validating" /\ mpc' # "validating")
          => (mpc' \in {"refining", "done"} /\ ~escaped')]_vars

C11_Witness_OneScoringRaised ==
  /\ mpc = "done"
  /\ Len(score_result) = 2
  /\ score_result[1].status = "raised"
  /\ score_result[2].status = "done"
  /\ result.validation = score_result[2].validation
  /\ result.validation.score = 9
  /\ ~escaped

\* the strategy label of the generation call that produced an artifact set
LabelOf(code_files) ==
  IF code_files.producer = "generate_primary" THEN "primary" ELSE "alternative"

\* C12: whatever the completion order of the generation and scoring calls, an
\* attempt carries the label of the call that produced its artifact set and
\* the report of the scoring call issued for that artifact set, with one
\* attempt per surviving generation call
C12_ResultsMatchCandidates ==
  /\ (mpc \in {"validating", "refining", "done", "returned"} \/ Validated) =>
        /\ Len(attempts) = NumOk
        /\ \A k \in 1..Len(attempts) :
              /\ attempts[k].agent_version = LabelOf(attempts[k].code_files)
              /\ gen_result[attempts[k].code_files.n] = "ok"
              /\ \A h \in 1..Len(attempts) :
                    attempts[h].code_files = attempts[k].code_files => h = k
  /\ Validated =>
        \A k \in 1..Len(attempts) :
          \E j \in 1..Len(validation_tasks) :
            /\ validation_tasks[j] = attempts[k].code_files
            /\ attempts[k].validation =
                 (IF score_result[j].status = "raised"
                    THEN ScoreErrorValidation ELSE score_result[j].validation)

C12_Witness_DroppedFirstCall ==
  /\ Validated
  /\ gen_result[1] = "failed"
  /\ Len(attempts) = 1
  /\ attempts[1].agent_version = "alternative"
  /\ attempts[1].validation.score = 8

\* C13: the attempt _select_best_attempt returns is one of the scored
\* attempts, no attempt has a higher score, and among the attempts with that
\* score it is the one generated earliest
C13_SelectsEarliestMaximum ==
  (Validated /\ selected # NoAttempt) =>
    /\ \E k \in 1..Len(attempts) : attempts[k] = selected
    /\ \A k \in 1..Len(attempts) :
          /\ attempts[k].validation.score <= selected.validation.score
          /\ (attempts[k].validation.score = selected.validation.score
                => selected.code_files.n <= attempts[k].code_files.n)

C13_Witness_TieSelectsPrimary ==
  /\ Validated
  /\ Len(attempts) = 2
  /\ attempts[1].validation.score = 8
  /\ attempts[2].validation.score = 8
  /\ selected.agent_version = "primary"

\* the score reports a run has produced so far
ProducedReports ==
  {attempts[k].validation : k \in 1..Len(attempts)}
    \cup {score_result[j].validation : j \in 1..Len(score_result)}
    \cup {current_attempt.validation, result.validation}

\* C14: in every score report of a run, whether scored, refined or fallback,
\* passed is true exactly when the score is at least the configured
\* quality_threshold
C14_PassedIffThreshold ==
  \A v \in ProducedReports :
    v.present => (v.passed <=> v.score >= quality_threshold)

\* C15: with max_iterations = 1, a run whose selected attempt scored below
\* the quality threshold makes exactly one refinement call before it finishes
C15_OneRefinementWithinBudgetOne ==
  (Finished /\ max_iterations = 1 /\ selected # NoAttempt
     /\ selected.validation.score < quality_threshold)
    => refine_calls = 1

\* C16: the fallback path makes exactly one further generation call, no
\* scoring call and no refinement call, and the report it returns is the
\* fallback report with passed = true
C16_FallbackSingleCallPassingReport ==
  [][(mpc = "fallback" /\ mpc' # "fallback")
      => /\ gen_calls' = gen_calls + 1
         /\ score_calls' = score_calls
         /\ refine_calls' = refine_calls
         /\ mpc' = "done"
         /\ result'.validation = FallbackValidation
         /\ result'.validation.passed]_vars

\* C17: _parse_code_response never returns an empty mapping, whatever the reply
C17_ParseNeverEmpty ==
  applied.fn = "_parse_code_response" => DOMAIN yielded.value # {}

\* C18: in both single-call generation paths a failure of the collaborator is
\* caught at the call site and the path returns an artifact set synthesized
\* from templates instead of raising
C18_SingleCallFallsBack ==
  (applied.fn \in {"generate_cloud_function", "generate_multi_cloud_deployment"}
     /\ applied.arg.collaborator # "reply")
    => /\ ~yielded.raised
       /\ DOMAIN yielded.value # {}
       /\ \A name \in DOMAIN yielded.value : yielded.value[name].origin = "template"

\* the names of the ### lines of the Models section, in declaration order
RECURSIVE ModelHeaders(_, _)
ModelHeaders(lines, section) ==
  IF lines = <<>> THEN <<>>
  ELSE LET line == Head(lines)
       IN IF line.kind = "section"
            THEN ModelHeaders(Tail(lines), Remainder(line))
            ELSE (IF line.kind = "h3" /\ section = "Models"
                    THEN <<Remainder(line)>> ELSE <<>>)
                 \o ModelHeaders(Tail(lines), section)

\* models[i]['name'] as a consumer reads it: a mapping has no integer keys
ItemName(models, i) ==
  IF models.type = "list" THEN models.names[i] ELSE "KeyError"

\* C19: parse returns models as an ordered sequence of {name, fields}
\* records, one per ### line of the Models section in declaration order
C19_ModelsCanonicalSequence ==
  applied.fn = "parse" =>
    LET models == yielded.value.models
        headers == ModelHeaders(applied.arg, "None")
    IN /\ Len(models.names) = Len(headers)
       /\ \A i \in 1..Len(headers) : ItemName(models, i) = headers[i]

\* 1 when the condition holds, 0 otherwise
Count(condition) == IF condition THEN 1 ELSE 0

\* C20: validate_spec returns one error for an empty name, one for an empty
\* endpoint list and, per endpoint, one for an empty method and a separate one
\* for an empty path, and nothing else; so the list is empty exactly when the
\* name is non-empty, an endpoint exists and every endpoint has method and path
C20_ValidateExactErrors ==
  applied.fn = "validate_spec" =>
    LET document == applied.arg
        errors == yielded.value
        endpoints == document.endpoints
        Reported(error, i) ==
          Cardinality({k \in 1..Len(errors) : errors[k] = SpecError(error, i)})
    IN /\ Reported("Service name is required", 0) = Count(document.name = "")
       /\ Reported("At least one endpoint must be defined", 0) = Count(endpoints = <<>>)
       /\ \A i \in 1..Len(endpoints) :
             /\ Reported("HTTP method is required", i) = Count(endpoints[i].method = "")
             /\ Reported("Path is required", i) = Count(endpoints[i].path = "")
       /\ Len(errors) =
            Count(document.name = "") + Count(endpoints = <<>>)
              + Cardinality({i \in 1..Len(endpoints) : endpoints[i].method = ""})
              + Cardinality({i \in 1..Len(endpoints) : endpoints[i].path = ""})
       /\ (errors = <<>> <=>
             /\ document.name # ""
             /\ endpoints # <<>>
             /\ \A i \in 1..Len(endpoints) :
                   endpoints[i].method # "" /\ endpoints[i].path # "")

C20_Witness_EmptyEndpointTwoErrors ==
  /\ applied.fn = "validate_spec"
  /\ applied.arg.name # ""
  /\ Len(applied.arg.endpoints) = 2
  /\ applied.arg.endpoints[1] = Endpoint("GET", "/health")
  /\ applied.arg.endpoints[2] = Endpoint("", "")
  /\ Len(yielded.value) = 2

\* the document the claim describes for the empty-string spec
EmptyDocument ==
  [name |-> "", description |-> "", runtime |-> "Node.js 20",
   endpoints |-> <<>>, models |-> EmptyDict]

RECURSIVE ClaimedEndpoints(_, _, _)
ClaimedEndpoints(lines, section, endpoints) ==
  IF lines = <<>> THEN endpoints
  ELSE LET line == Head(lines)
           last == Len(endpoints)
           value == Join(Tail(line.words))
       IN CASE line.kind = "section" ->
                 ClaimedEndpoints(Tail(lines), Remainder(line), endpoints)
            [] line.kind = "h3" /\ section = "Endpoints" ->
                 ClaimedEndpoints(Tail(lines), section,
                   Append(endpoints,
                          Endpoint(Head(line.words),
                                   IF Len(line.words) > 1 THEN value ELSE "/")))
            [] line.kind = "item" /\ section = "Endpoints" /\ last > 0 ->
                 ClaimedEndpoints(Tail(lines), section,
                   CASE Head(line.words) = "Description:" ->
                          [endpoints EXCEPT ![last].description = value]
                     [] Head(line.words) = "Input:" ->
                          [endpoints EXCEPT ![last].input = value]
                     [] Head(line.words) = "Output:" ->
                          [endpoints EXCEPT ![last].output = value]
                     [] Head(line.words) = "Auth:" ->
                          [endpoints EXCEPT ![last].auth = value]
                     [] OTHER -> endpoints)
            [] OTHER -> ClaimedEndpoints(Tail(lines), section, endpoints)

\* C22: parse yields one endpoint per ### line of the Endpoints section, in
\* declaration order; method is the text before the first space of the text
\* after the marker and path the rest ('/' without a space); description is
\* '', input and output are absent and auth is 'None' until a - Description:,
\* - Input:, - Output: or - Auth: line of that endpoint overrides the field
C22_EndpointPerHeader ==
  applied.fn = "parse" =>
    yielded.value.endpoints = ClaimedEndpoints(applied.arg, "None", <<>>)

\* C23: the phases of a run occur in the order GENERATING, VALIDATING,
\* SELECTING, REFINING*, DONE: a scoring call is issued only when every
\* generation call has completed, an attempt is selected only when every
\* scoring call has completed, and a refinement call is made only after the
\* selection
C23_PhaseOrder ==
  /\ [](/\ score_calls > 0 => \A i \in 1..NumVersions : gen_result[i] # "pending"
        /\ selected # NoAttempt =>
             /\ score_result # <<>>
             /\ \A j \in 1..Len(score_result) : score_result[j].status # "pending"
        /\ refine_calls > 0 => selected # NoAttempt
        /\ mpc = "done" => \A i \in 1..NumVersions : gen_result[i] # "pending")
  /\ [][/\ score_calls' > score_calls =>
             \A i \in 1..NumVersions : gen_result'[i] # "pending"
        /\ refine_calls' > refine_calls => (selected # NoAttempt /\ mpc = "refining")
        /\ (mpc = "generating" => mpc' \in {"generating", "validating", "fallback"})
        /\ (mpc = "validating" => mpc' \in {"validating", "refining", "done"})
        /\ (mpc = "refining" => mpc' \in {"refining", "done", "fallback"})]_vars

C23_Witness_AllPhases ==
  /\ mpc = "done"
  /\ Len(score_result) = 2
  /\ refine_calls = 2
  /\ selected # NoAttempt
  /\ ~escaped

\* C24: in each repair iteration every content issue of the preceding
\* validation pass is acted on: a file named by an issue is replaced by the
\* output of its generator, and on the runtime issue the application files of
\* the spec runtime are generated, whatever the spec runtime
C24_EveryContentIssueActedOn ==
  [][(pc = "repairing" /\ attempt' = attempt + 1) =>
       \A issue \in validation_results.content_issues :
         /\ \A f \in required_files :
              IssueNames(issue, f) =>
                /\ f \in DOMAIN fixed_files'
                /\ fixed_files'[f] = Synthesize(f, spec, providers)
         /\ issue = RuntimeIssue =>
              \E f \in nodejs_group \cup python_group \cup go_group :
                /\ f \in DOMAIN fixed_files'
                /\ fixed_files'[f].origin = "gen"]_vars

\* does the artifact set hold both files of one runtime signature group
CompleteRuntimeGroup(files) ==
  \E group \in {nodejs_group, python_group, go_group} : group \subseteq DOMAIN files

\* C25: a validation pass reports the runtime content issue exactly when the
\* artifact set holds no complete runtime signature group, and it never lists
\* a runtime file among the missing files
C25_RuntimeIssueIffNoCompleteGroup ==
  validations >= 1 =>
    /\ (RuntimeIssue \in validation_results.content_issues
          <=> ~CompleteRuntimeGroup(fixed_files))
    /\ validation_results.missing_files
          \cap (nodejs_group \cup python_group \cup go_group) = {}

\* is the input entry f named by a content issue of the first validation pass
NamedByIssue(f) ==
  \E issue \in InputReport.content_issues : IssueNames(issue, f)

\* C26: validate_and_fix removes no key, leaves every input entry that no
\* content issue names with its content, and does not modify the mapping it
\* was given, whatever the outcome
C26_Frame ==
  /\ [](pc # "idle" =>
         /\ DOMAIN generated_files \subseteq DOMAIN fixed_files
         /\ \A f \in DOMAIN generated_files :
              ~NamedByIssue(f) => fixed_files[f] = generated_files[f])
  /\ [][pc # "idle" => generated_files' = generated_files]_vars

C26_Witness_KeptBesideRegenerated ==
  /\ Returned
  /\ attempt >= 1
  /\ {"main.tf", "variables.tf", "README-DEPLOYMENT.md"} \subseteq DOMAIN generated_files
  /\ ~NamedByIssue("main.tf")
  /\ fixed_files["main.tf"] = generated_files["main.tf"]
  /\ fixed_files["variables.tf"] # generated_files["variables.tf"]
  /\ fixed_files["README-DEPLOYMENT.md"] = generated_files["README-DEPLOYMENT.md"]

\* what validate_and_fix returns on the same input with max_retries = 1
AfterOneIteration ==
  ReturnedFiles(generated_files, spec, providers, 1, env_read)

\* C27: the repair step reaches a fixed point after one iteration: the second
\* and every later iteration leave the artifact set and the validation report
\* as they were, and for every max_retries >= 1 validate_and_fix returns the
\* pair it returns for max_retries = 1
C27_FixedPointAfterOneIteration ==
  /\ [][(pc = "repairing" /\ attempt >= 1 /\ attempt' = attempt + 1) =>
          /\ fixed_files' = fixed_files
          /\ validation_results' = validation_results]_vars
  /\ []((Returned /\ max_retries >= 1) =>
          /\ fixed_files = AfterOneIteration
          /\ success = validate_terraform_files(AfterOneIteration, providers).valid)

C27_Witness_ThirdIterationRan ==
  /\ Returned
  /\ max_retries = 3
  /\ attempt = 3
  /\ client_constructed
  /\ fixed_files # generated_files

\* C28: the candidate _refinement_loop returns scores at least as high as the
\* candidate that was selected before refinement, whatever the refinement and
\* re-scoring outcomes
C28_RefinementNeverLowersScore ==
  (mpc = "done" /\ selected # NoAttempt /\ ~escaped) =>
    /\ result.validation = current_attempt.validation
    /\ result.validation.score >= selected.validation.score

\* index of the most recent section header before line k (0: none)
RECURSIVE LastSection(_, _)
LastSection(lines, k) ==
  IF k <= 1 THEN 0
  ELSE IF lines[k - 1].kind = "section" THEN k - 1
  ELSE LastSection(lines, k - 1)

\* line k is a - line of a section with no ### header between the most recent
\* section header and it
OrphanItem(lines, k) ==
  /\ lines[k].kind = "item"
  /\ LastSection(lines, k) # 0
  /\ \A j \in (LastSection(lines, k) + 1)..(k - 1) : lines[j].kind # "h3"

\* C29: a - line of an Endpoints or Models section that comes before any ###
\* header since the most recent section header is dropped: parsing it changes
\* no endpoint and no model
C29_OrphanItemDropped ==
  applied.fn = "parse" =>
    \A k \in 1..Len(applied.arg) :
      OrphanItem(applied.arg, k) =>
        LET before == ParseLines(ParserStart, SubSeq(applied.arg, 1, k - 1))
            after == ParseLine(before, applied.arg[k])
        IN /\ after.endpoints = before.endpoints
           /\ after.models = before.models

EntryPoints == {"cli.main", "prototype.main", "terraform_prototype.main"}

\* C30: every pipeline entry point ends with exit status 1 whenever spec
\* validation, artifact validation or deployment fails, and with exit status 0
\* only when every step it ran succeeded
C30_ExitStatusReflectsFailure ==
  applied.fn \in EntryPoints =>
    LET steps == applied.arg.steps
        run == applied.arg.run
    IN /\ (\E i \in 1..Len(run) :
             /\ steps[i].category \in
                  {"spec_validation", "artifact_validation", "deployment"}
             /\ run[i] # "ok") => yielded.status = 1
       /\ yielded.status = 0 => \A i \in 1..Len(run) : run[i] = "ok"

====
